---- MODULE Spec2Model ----
(***************************************************************************)
(* cbase: print_to_string, strerror_r_improved and humanized_timestamp of  *)
(* src/src/base.c, modelled over a caller-owned byte buffer.               *)
(*                                                                         *)
(* A text is a sequence of character codes (ASCII); the buffer is a        *)
(* function from the indices 0..MemSize-1 of the caller's array to bytes.  *)
(* The argument len is the capacity the caller passes, 0 <= len <= MemSize.*)
(* The host library (vsnprintf, strerror_r, localtime_r, strftime) is the  *)
(* environment: its documented behaviour is modelled by operators, and     *)
(* whatever it leaves indeterminate is an input chosen with \E.            *)
(***************************************************************************)
EXTENDS Integers, Sequences, FiniteSets

VARIABLES
    gnu,     \* build: TRUE when _GNU_SOURCE && !__APPLE__ (base.c:39)
    pc,      \* "ready": the caller holds a buffer; "done": a call returned
    str,     \* the caller's buffer
    pre,     \* the buffer as it was when the last call was entered
    call,    \* the last call: function and arguments, host results included
    ret,     \* the last call's return value
    wrote,   \* the indices the last print_to_string call stored to (for the
             \* other two functions: the indices whose byte changed)
    engStr,  \* the buffer as the host routine left it during the last call
    path,    \* which of the last call's steps succeeded
    memo     \* an earlier call kept for comparison, or NoMemo

vars == <<gnu, pc, str, pre, call, ret, wrote, engStr, path, memo>>

----------------------------------------------------------------------------
(* Bounds and literals *)

\* The size of the caller's array.
MemSize == 26

\* The most characters a host routine is taken to have stored when it gives
\* up (an engine error, a strftime result of 0).
MaxPartial == 2

NUL == 0

Idx == 0 .. (MemSize - 1)

Min(a, b) == IF a < b THEN a ELSE b

\* "unknown error"
unknown == <<117, 110, 107, 110, 111, 119, 110, 32, 101, 114, 114, 111, 114>>

\* "error"
err_literal == <<101, 114, 114, 111, 114>>

----------------------------------------------------------------------------
(* Buffers *)

Fill(c) == [i \in Idx |-> c]

\* What a caller's buffer may hold before a call: zeroed, or garbage with
\* no terminator in it.
PriorBufs == {Fill(NUL), Fill(120)}

\* buf with the first n characters of text stored from index 0.
Store(buf, text, n) ==
    [i \in Idx |-> IF i < n THEN text[i + 1] ELSE buf[i]]

\* buf with byte c stored at index i.
Poke(buf, i, c) == [buf EXCEPT ![i] = c]

\* The length of the C string at the start of buf (MemSize when no
\* terminator is inside the array).
StrLen(buf) ==
    IF \E i \in Idx : buf[i] = NUL
    THEN CHOOSE i \in Idx : buf[i] = NUL /\ \A j \in 0 .. (i - 1) : buf[j] # NUL
    ELSE MemSize

\* The C string at the start of buf, as a text.
CStr(buf) == [i \in 1 .. StrLen(buf) |-> buf[i - 1]]

----------------------------------------------------------------------------
(* The formatting engine: vsnprintf, base.c:18 *)

RECURSIVE Digits(_)
Digits(n) == IF n < 10 THEN <<48 + n>> ELSE Digits(n \div 10) \o <<48 + (n % 10)>>

\* %d
FmtD(n) == IF n < 0 THEN <<45>> \o Digits(-n) ELSE Digits(n)

\* The text a format request renders to with unlimited room.
Render(req) ==
    CASE req.fmt = "%d"    -> FmtD(req.d)
      [] req.fmt = "%s"    -> req.s
      [] req.fmt = "%s %d" -> req.s \o <<32>> \o FmtD(req.d)

\* The format requests of the callers: the two of the header's and spec's
\* examples, an empty rendering, and strerror_r_improved's own.
Requests ==
    { [fmt |-> "%d", s |-> <<>>, d |-> 12345],
      [fmt |-> "%d", s |-> <<>>, d |-> -7],
      [fmt |-> "%s", s |-> <<>>, d |-> 0],
      [fmt |-> "%s %d", s |-> unknown, d |-> 9999] }

\* What the engine can do with a text of length L and capacity len: succeed,
\* or report an error after storing k characters (no terminator promised).
EngineOutcomes(L, len) ==
    {[error |-> FALSE, k |-> 0]}
        \cup {[error |-> TRUE, k |-> j] :
                  j \in 0 .. (IF len = 0 THEN 0 ELSE Min(MaxPartial, Min(L, len - 1)))}

\* vsnprintf(str, len, fmt, ap): the would-be length, and the buffer with at
\* most len-1 characters and a terminator stored (nothing when len is 0).
vsnprintf(buf, len, req, eng) ==
    LET text == Render(req)
        L    == Len(text)
        n    == Min(L, len - 1)
    IN  IF eng.error
        THEN [num |-> -1, str |-> Store(buf, text, eng.k), wrote |-> 0 .. (eng.k - 1)]
        ELSE IF len = 0
        THEN [num |-> L, str |-> buf, wrote |-> {}]
        ELSE [num |-> L, str |-> Poke(Store(buf, text, n), n, NUL), wrote |-> 0 .. n]

----------------------------------------------------------------------------
(* print_to_string, base.c:13-37 *)
(* str and fmt are not NULL (the assertions of base.c:14-15); the         *)
(* assertion of base.c:35 is the last conjunct of C1 below.               *)

\* Mutant: the fit test counts the terminator twice.
print_to_string_strict(buf, len, req, eng) ==
    LET e == vsnprintf(buf, len, req, eng)
    IN  IF e.num < 0
        THEN [ret |-> -1, str |-> e.str, wrote |-> e.wrote, engStr |-> e.str]
        ELSE IF e.num + 1 >= len
        THEN [ret |-> -1, str |-> Poke(e.str, 0, NUL),
              wrote |-> e.wrote \cup {0}, engStr |-> e.str]
        ELSE [ret |-> e.num, str |-> e.str, wrote |-> e.wrote, engStr |-> e.str]

\* Mutant: the truncated text is left in place.
print_to_string_keep(buf, len, req, eng) ==
    LET e == vsnprintf(buf, len, req, eng)
    IN  IF e.num < 0
        THEN [ret |-> -1, str |-> e.str, wrote |-> e.wrote, engStr |-> e.str]
        ELSE IF e.num >= len
        THEN [ret |-> -1, str |-> e.str, wrote |-> e.wrote, engStr |-> e.str]
        ELSE [ret |-> e.num, str |-> e.str, wrote |-> e.wrote, engStr |-> e.str]

\* Mutant: the buffer is reset on the engine's error as well.
print_to_string_reset(buf, len, req, eng) ==
    LET e == vsnprintf(buf, len, req, eng)
    IN  IF e.num < 0 \/ e.num >= len
        THEN [ret |-> -1, str |-> Poke(e.str, 0, NUL),
              wrote |-> e.wrote \cup {0}, engStr |-> e.str]
        ELSE [ret |-> e.num, str |-> e.str, wrote |-> e.wrote, engStr |-> e.str]

print_to_string(buf, len, req, eng) ==
    LET e == vsnprintf(buf, len, req, eng)
    IN  IF e.num < 0
        THEN [ret |-> -1, str |-> e.str, wrote |-> e.wrote, engStr |-> e.str]
        ELSE IF e.num >= len
        THEN [ret |-> -1, str |-> Poke(e.str, 0, NUL),
              wrote |-> e.wrote \cup {0}, engStr |-> e.str]
        ELSE [ret |-> e.num, str |-> e.str, wrote |-> e.wrote, engStr |-> e.str]

----------------------------------------------------------------------------
(* Return values *)

IntRet(n)       == [kind |-> "int", val |-> n, to |-> "", text |-> <<>>]

\* A returned pointer: to the caller's buffer ("str"), to one of the two
\* literals of base.c ("unknown", "error"), or to a string of the host's
\* ("host", with the text it points to).
PtrRet(to, text) == [kind |-> "ptr", val |-> 0, to |-> to, text |-> text]

\* The string a returned pointer points to, given the buffer after the call.
Pointee(r, buf) == IF r.to = "str" THEN CStr(buf) ELSE r.text

----------------------------------------------------------------------------
(* The host's strerror_r, base.c:41 and base.c:46 *)

\* The host's table of error descriptions (<<>>: no entry). 5 is EIO,
\* "Input/output error"; 17 is EEXIST, "File exists".
HostMsg(err) ==
    CASE err = 5  -> <<73, 110, 112, 117, 116, 47, 111, 117, 116, 112, 117, 116,
                       32, 101, 114, 114, 111, 114>>
      [] err = 17 -> <<70, 105, 108, 101, 32, 101, 120, 105, 115, 116, 115>>
      [] OTHER    -> <<>>

\* "Unknown error <err>", the host's own text for a code without an entry.
HostUnknown(err) ==
    <<85, 110, 107, 110, 111, 119, 110, 32, 101, 114, 114, 111, 114, 32>> \o FmtD(err)

Errs == {5, 17, 9999, -1}

\* buf with text stored as far as len allows, terminated (nothing for len 0).
Truncated(buf, len, text) ==
    IF len = 0 THEN buf
    ELSE LET n == Min(Len(text), len - 1) IN Poke(Store(buf, text, n), n, NUL)

\* How a failing XSI strerror_r behaves, which POSIX leaves to the host: it
\* returns the error number or -1 (errno set), and it stores a truncated
\* text or leaves the buffer alone.
HostVariants == {[minus1 |-> m, fill |-> f] : m, f \in BOOLEAN}

\* int strerror_r(int, char *, size_t) (XSI): 0 and the description in the
\* buffer, or a failure (22 is EINVAL, 34 is ERANGE).
xsi_strerror_r(buf, len, err, h) ==
    LET msg == HostMsg(err)
    IN  IF msg # <<>> /\ Len(msg) < len
        THEN [rc |-> 0, str |-> Truncated(buf, len, msg)]
        ELSE [rc  |-> IF h.minus1 THEN -1 ELSE IF msg = <<>> THEN 22 ELSE 34,
              str |-> IF h.fill
                      THEN Truncated(buf, len, IF msg = <<>> THEN HostUnknown(err) ELSE msg)
                      ELSE buf]

\* char *strerror_r(int, char *, size_t) (GNU): a pointer to the host's own
\* immutable description, or the buffer with "Unknown error <err>" in it,
\* truncated to len.
gnu_strerror_r(buf, len, err) ==
    LET msg == HostMsg(err)
    IN  IF msg # <<>>
        THEN [ptr |-> PtrRet("host", msg), str |-> buf]
        ELSE [ptr |-> PtrRet("str", <<>>), str |-> Truncated(buf, len, HostUnknown(err))]

----------------------------------------------------------------------------
(* strerror_r_improved, base.c:39-52 *)

NoPath == [lookup |-> "none", synth |-> "none", bytes |-> -1]

\* The #if branch, base.c:40-42.
strerror_r_improved_gnu(buf, len, err) ==
    LET g == gnu_strerror_r(buf, len, err)
    IN  [ret |-> g.ptr, str |-> g.str, engStr |-> g.str,
         path |-> [NoPath EXCEPT !.lookup = "ok"]]

SynthReq(err) == [fmt |-> "%s %d", s |-> unknown, d |-> err]

\* Mutant: only a zero status counts as success.
strerror_r_improved_zero(buf, len, err, h, eng) ==
    LET x == xsi_strerror_r(buf, len, err, h)
        p == print_to_string(x.str, len, SynthReq(err), eng)
        rc == IF x.rc # 0 THEN p.ret ELSE x.rc
    IN  [ret  |-> IF rc = 0 THEN PtrRet("str", <<>>) ELSE PtrRet("unknown", unknown),
         str  |-> IF x.rc # 0 THEN p.str ELSE x.str,
         engStr |-> IF x.rc # 0 THEN p.engStr ELSE x.str,
         path |-> [NoPath EXCEPT
                     !.lookup = IF x.rc = 0 THEN "ok" ELSE "failed",
                     !.synth  = IF x.rc = 0 THEN "none"
                                ELSE IF p.ret >= 0 THEN "ok" ELSE "failed"]]

\* Mutant: the buffer is returned whatever the synthesis did.
strerror_r_improved_blind(buf, len, err, h, eng) ==
    LET x == xsi_strerror_r(buf, len, err, h)
        p == print_to_string(x.str, len, SynthReq(err), eng)
    IN  [ret  |-> PtrRet("str", <<>>),
         str  |-> IF x.rc # 0 THEN p.str ELSE x.str,
         engStr |-> IF x.rc # 0 THEN p.engStr ELSE x.str,
         path |-> [NoPath EXCEPT
                     !.lookup = IF x.rc = 0 THEN "ok" ELSE "failed",
                     !.synth  = IF x.rc = 0 THEN "none"
                                ELSE IF p.ret >= 0 THEN "ok" ELSE "failed"]]

\* The #else branch, base.c:44-51.
strerror_r_improved_xsi(buf, len, err, h, eng) ==
    LET x == xsi_strerror_r(buf, len, err, h)
        p == print_to_string(x.str, len, SynthReq(err), eng)
        rc == IF x.rc # 0 THEN p.ret ELSE x.rc
    IN  [ret  |-> IF rc >= 0 THEN PtrRet("str", <<>>) ELSE PtrRet("unknown", unknown),
         str  |-> IF x.rc # 0 THEN p.str ELSE x.str,
         engStr |-> IF x.rc # 0 THEN p.engStr ELSE x.str,
         path |-> [NoPath EXCEPT
                     !.lookup = IF x.rc = 0 THEN "ok" ELSE "failed",
                     !.synth  = IF x.rc = 0 THEN "none"
                                ELSE IF p.ret >= 0 THEN "ok" ELSE "failed"]]

----------------------------------------------------------------------------
(* The host's clock and strftime, base.c:57-65 *)

\* The broken-down local times localtime_r can give (struct tm: tm_year is
\* the year minus 1900, tm_mon counts from 0, tm_wday from Sunday). The
\* first is the header's example, Mon Feb 17 13:22:05 2020.
Tms ==
    { [wday |-> 1, mon |-> 1, mday |-> 17, hour |-> 13, min |-> 22, sec |-> 5, year |-> 120],
      [wday |-> 4, mon |-> 0, mday |-> 1, hour |-> 0, min |-> 0, sec |-> 0, year |-> 70],
      [wday |-> 5, mon |-> 11, mday |-> 31, hour |-> 23, min |-> 59, sec |-> 59, year |-> 8099] }

WdayName ==
    << <<83, 117, 110>>, <<77, 111, 110>>, <<84, 117, 101>>, <<87, 101, 100>>,
       <<84, 104, 117>>, <<70, 114, 105>>, <<83, 97, 116>> >>

MonName ==
    << <<74, 97, 110>>, <<70, 101, 98>>, <<77, 97, 114>>, <<65, 112, 114>>,
       <<77, 97, 121>>, <<74, 117, 110>>, <<74, 117, 108>>, <<65, 117, 103>>,
       <<83, 101, 112>>, <<79, 99, 116>>, <<78, 111, 118>>, <<68, 101, 99>> >>

\* Two columns, padded on the left with the character pad.
Pad2(n, pad) == IF n < 10 THEN <<pad>> \o Digits(n) ELSE Digits(n)

\* "%c" in the C locale, "%a %b %e %H:%M:%S %Y" (base.c never calls
\* setlocale; base.h:125 shows this form). Years have four digits.
FmtC(tm) ==
    WdayName[tm.wday + 1] \o <<32>> \o MonName[tm.mon + 1] \o <<32>>
        \o Pad2(tm.mday, 32) \o <<32>>
        \o Pad2(tm.hour, 48) \o <<58>> \o Pad2(tm.min, 48) \o <<58>> \o Pad2(tm.sec, 48)
        \o <<32>> \o FmtD(tm.year + 1900)

\* strftime(str, len, "%c", ptm): the length and the terminated text when
\* text and terminator fit in len; otherwise 0, with the buffer's contents
\* indeterminate (here: k characters of the text stored).
strftime(buf, len, tm, k) ==
    LET text == FmtC(tm)
    IN  IF Len(text) + 1 <= len
        THEN [bytes |-> Len(text), str |-> Truncated(buf, len, text)]
        ELSE [bytes |-> 0, str |-> Store(buf, text, k)]

----------------------------------------------------------------------------
(* humanized_timestamp, base.c:54-73 *)

\* Mutant: the result of strftime is not looked at.
humanized_timestamp_unchecked(buf, len, clock, k) ==
    IF ~clock.ok
    THEN [ret |-> PtrRet("error", err_literal), str |-> buf, engStr |-> buf, path |-> NoPath]
    ELSE LET f == strftime(buf, len, clock.tm, k)
         IN  [ret |-> PtrRet("str", <<>>), str |-> f.str, engStr |-> f.str,
              path |-> [NoPath EXCEPT !.bytes = f.bytes]]

humanized_timestamp(buf, len, clock, k) ==
    IF ~clock.ok
    THEN [ret |-> PtrRet("error", err_literal), str |-> buf, engStr |-> buf, path |-> NoPath]
    ELSE LET f == strftime(buf, len, clock.tm, k)
         IN  IF f.bytes = 0
             THEN [ret |-> PtrRet("error", err_literal), str |-> f.str, engStr |-> f.str,
                   path |-> [NoPath EXCEPT !.bytes = 0]]
             ELSE [ret |-> PtrRet("str", <<>>), str |-> f.str, engStr |-> f.str,
                   path |-> [NoPath EXCEPT !.bytes = f.bytes]]

----------------------------------------------------------------------------
(* The state machine: a caller that takes a buffer and makes a call *)

NoCall == [op |-> "none"]
NoRet  == [kind |-> "none", val |-> 0, to |-> "", text |-> <<>>]
NoMemo == [call |-> NoCall, ret |-> NoRet, str |-> <<>>]

Init ==
    /\ gnu \in BOOLEAN
    /\ pc = "ready"
    /\ str \in PriorBufs
    /\ pre = str
    /\ call = NoCall
    /\ ret = NoRet
    /\ wrote = {}
    /\ engStr = str
    /\ path = NoPath
    /\ memo = NoMemo

\* The caller takes a buffer for the next call; the record of the last call
\* is dropped.
Prepare ==
    /\ pc = "done"
    /\ pc' = "ready"
    /\ str' \in PriorBufs
    /\ pre' = str'
    /\ call' = NoCall
    /\ ret' = NoRet
    /\ wrote' = {}
    /\ engStr' = str'
    /\ path' = NoPath
    /\ UNCHANGED <<gnu, memo>>

\* The indices at which two buffers differ.
Diff(a, b) == {i \in Idx : a[i] # b[i]}

\* The amounts the engine may have stored before an error it reports.
Ks(len, req, error) ==
    {o.k : o \in {e \in EngineOutcomes(Len(Render(req)), len) : e.error = error}}

PrintInputs ==
    {[op |-> "print", len |-> len, req |-> req, error |-> e] :
        len \in 0 .. MemSize, req \in Requests, e \in BOOLEAN}

\* print_to_string(str, len, fmt, ...)
CallPrint(in, k) ==
    /\ pc = "ready"
    /\ LET r == print_to_string(str, in.len, in.req, [error |-> in.error, k |-> k])
       IN  /\ str' = r.str
           /\ ret' = IntRet(r.ret)
           /\ wrote' = r.wrote
           /\ engStr' = r.engStr
    /\ path' = NoPath
    /\ pre' = str
    /\ call' = in
    /\ pc' = "done"
    /\ UNCHANGED <<gnu, memo>>

StrerrorInputs ==
    {[op |-> "strerror", len |-> len, err |-> err, h |-> h, error |-> e] :
        len \in 0 .. MemSize, err \in Errs, h \in HostVariants, e \in BOOLEAN}

\* strerror_r_improved(err, str, len), in the build's variant
CallStrerror(in, k) ==
    /\ pc = "ready"
    /\ LET r == IF gnu
                THEN strerror_r_improved_gnu(str, in.len, in.err)
                ELSE strerror_r_improved_xsi(str, in.len, in.err, in.h,
                                             [error |-> in.error, k |-> k])
       IN  /\ str' = r.str
           /\ ret' = r.ret
           /\ engStr' = r.engStr
           /\ path' = r.path
           /\ wrote' = Diff(str, r.str)
    /\ pre' = str
    /\ call' = in
    /\ pc' = "done"
    /\ UNCHANGED <<gnu, memo>>

TimestampInputs ==
    {[op |-> "timestamp", len |-> len, clock |-> [ok |-> ok, tm |-> tm]] :
        len \in 0 .. MemSize, ok \in BOOLEAN, tm \in Tms}

\* humanized_timestamp(str, len)
CallTimestamp(in, k) ==
    /\ pc = "ready"
    /\ LET r == humanized_timestamp(str, in.len, in.clock, k)
       IN  /\ str' = r.str
           /\ ret' = r.ret
           /\ engStr' = r.engStr
           /\ path' = r.path
           /\ wrote' = Diff(str, r.str)
    /\ pre' = str
    /\ call' = in
    /\ pc' = "done"
    /\ UNCHANGED <<gnu, memo>>

\* The amounts strftime may have stored when it returns 0.
Js(len, tm) == 0 .. Min(MaxPartial, Min(Len(FmtC(tm)), len))

Next ==
    \/ Prepare
    \/ pc = "ready" /\ \E in \in PrintInputs :
           \E k \in Ks(in.len, in.req, in.error) : CallPrint(in, k)
    \/ pc = "ready" /\ \E in \in StrerrorInputs :
           \E k \in Ks(in.len, SynthReq(in.err), in.error) : CallStrerror(in, k)
    \/ pc = "ready" /\ \E in \in TimestampInputs :
           \E k \in Js(in.len, in.clock.tm) : CallTimestamp(in, k)

Spec == Init /\ [][Next]_vars

----------------------------------------------------------------------------
(* Calls repeated with the same inputs *)

\* The last call is kept for comparison with the calls that follow.
Remember ==
    /\ pc = "done"
    /\ memo' = [call |-> call, ret |-> ret, str |-> str]
    /\ UNCHANGED <<gnu, pc, str, pre, call, ret, wrote, engStr, path>>

\* The caller passes the buffer of the last call to the next call as it is.
Reuse ==
    /\ pc = "done"
    /\ memo # NoMemo
    /\ pc' = "ready"
    /\ UNCHANGED <<gnu, str, pre, call, ret, wrote, engStr, path, memo>>

\* The inputs of S for function op the next call may take: any, until a call
\* is kept; from then on, the inputs of the call kept.
Again(S, op) ==
    IF memo = NoMemo THEN S ELSE IF memo.call.op = op THEN {memo.call} ELSE {}

NextIdem ==
    \/ Prepare
    \/ Remember
    \/ Reuse
    \/ pc = "ready" /\ \E in \in Again(PrintInputs, "print") :
           \E k \in Ks(in.len, in.req, in.error) : CallPrint(in, k)
    \/ pc = "ready" /\ \E in \in Again(StrerrorInputs, "strerror") :
           \E k \in Ks(in.len, SynthReq(in.err), in.error) : CallStrerror(in, k)
    \/ pc = "ready" /\ \E in \in Again(TimestampInputs, "timestamp") :
           \E k \in Js(in.len, in.clock.tm) : CallTimestamp(in, k)

SpecIdem == Init /\ [][NextIdem]_vars

----------------------------------------------------------------------------
(* Properties of print_to_string *)

IsPrint == call.op = "print"

\* The rendered text of the last print_to_string call.
Text == Render(call.req)

\* C1: a print_to_string call with len > 0 whose rendered text has length
\* L < len returns L, and the buffer then holds the L rendered characters at
\* 0..L-1 and the terminator at L.
C1_FitsReturnsLength ==
    (IsPrint /\ ~call.error /\ call.len > 0 /\ Len(Text) < call.len)
        => /\ ret.val = Len(Text)
           /\ \A i \in 0 .. (Len(Text) - 1) : str[i] = Text[i + 1]
           /\ str[Len(Text)] = NUL

\* print_to_string(buf, 6, "%d", 12345) returned 5 and left "12345".
C1_Witness ==
    /\ IsPrint /\ ~call.error /\ call.len = 6
    /\ call.req = [fmt |-> "%d", s |-> <<>>, d |-> 12345]
    /\ pre = Fill(120)
    /\ ret.val = 5
    /\ CStr(str) = <<49, 50, 51, 52, 53>>

C3_ZeroCapacityNoWrite ==
    (IsPrint /\ call.len = 0) => wrote = {} /\ str = pre

\* C4: when the engine reports no error, print_to_string returns the length
\* the text would have with unlimited room.
C4_ReturnsWouldBeLength ==
    (IsPrint /\ ~call.error) => ret.val = Len(Text)

\* C9: print_to_string stores only to indices 0..len-1 of the buffer; every
\* byte at an index >= len is as it was.
C9_WritesWithinCapacity ==
    IsPrint => /\ wrote \subseteq 0 .. (call.len - 1)
               /\ \A i \in Idx : i >= call.len => str[i] = pre[i]

\* C10: when the engine reports an error, print_to_string returns -1 and
\* the buffer is as the engine left it.
C10_EngineErrorLeavesBuffer ==
    (IsPrint /\ call.error) => ret.val = -1 /\ str = engStr

\* The engine failed after storing to the buffer; buffer[0] was not reset.
C10_Witness ==
    /\ IsPrint /\ call.error
    /\ ret.val = -1
    /\ pre = Fill(NUL)
    /\ str[0] # NUL
    /\ str = engStr

----------------------------------------------------------------------------
(* Properties of strerror_r_improved *)

IsStrerror == call.op = "strerror"

LookupOrSynthesisOk == path.lookup = "ok" \/ path.synth = "ok"

\* C5 as claimed: the buffer is returned whenever the host's lookup or the
\* synthesis succeeds, the literal only when both fail.
C5_AsClaimed ==
    IsStrerror => /\ LookupOrSynthesisOk => ret.to = "str"
                  /\ ret.to = "unknown" => (path.lookup = "failed" /\ path.synth = "failed")

\* C5, amended: in the build on the XSI strerror_r the buffer is returned
\* exactly when the lookup or the synthesis succeeds and the literal
\* "unknown error" exactly when both fail; in the GNU build the host's
\* pointer is returned, the buffer or a string of the host's own, never the
\* literal.
C5_BufferOrLiteral ==
    IsStrerror =>
        /\ ~gnu => /\ ret.to = "str" <=> LookupOrSynthesisOk
                   /\ ret.to = "unknown" <=> (path.lookup = "failed" /\ path.synth = "failed")
                   /\ ret.to \in {"str", "unknown"}
        /\ gnu => ret.to \in {"str", "host"}

\* The lookup failed, the synthesis succeeded, the buffer came back.
C5_Witness ==
    /\ IsStrerror /\ ~gnu /\ call.err = -1
    /\ path.lookup = "failed" /\ path.synth = "ok"
    /\ ret.to = "str"
    /\ CStr(str) = unknown \o <<32, 45, 49>>

\* C6: with len at least the length of "unknown error <code>" plus 1, the
\* string strerror_r_improved returns is not empty.
C6_NeverEmpty ==
    (IsStrerror /\ call.len >= Len(Render(SynthReq(call.err))) + 1)
        => Pointee(ret, str) # <<>>

\* strerror_r_improved(9999, buf, 19) on the XSI build: "unknown error 9999".
C6_Witness ==
    /\ IsStrerror /\ ~gnu /\ call.err = 9999 /\ call.len = 19
    /\ pre = Fill(NUL)
    /\ ret.to = "str"
    /\ Pointee(ret, str) = unknown \o <<32, 57, 57, 57, 57>>

----------------------------------------------------------------------------
(* Properties of humanized_timestamp *)

IsTimestamp == call.op = "timestamp"

\* The layout Www Mmm dd hh:mm:ss yyyy.
Layout(t) ==
    /\ Len(t) = 24
    /\ t[4] = 32 /\ t[8] = 32 /\ t[11] = 32 /\ t[14] = 58 /\ t[17] = 58 /\ t[20] = 32

\* C7: with the local time converted and len >= 25, humanized_timestamp
\* returns the buffer holding the non-empty, terminated rendering of that
\* time; when the conversion fails or strftime yields 0 bytes, it returns
\* the literal "error".
C7_TimestampOrError ==
    IsTimestamp =>
        /\ (call.clock.ok /\ call.len >= 25)
              => /\ ret.to = "str"
                 /\ StrLen(str) < call.len
                 /\ CStr(str) # <<>>
                 /\ CStr(str) = FmtC(call.clock.tm)
                 /\ Layout(CStr(str))
        /\ (~call.clock.ok \/ path.bytes = 0)
              => ret.to = "error" /\ Pointee(ret, str) = err_literal

\* humanized_timestamp(buf, 25) at Mon Feb 17 13:22:05 2020.
C7_Witness ==
    /\ IsTimestamp /\ call.clock.ok /\ call.len = 25
    /\ pre = Fill(120)
    /\ ret.to = "str"
    /\ CStr(str) = <<77, 111, 110, 32, 70, 101, 98, 32, 49, 55, 32, 49, 51, 58,
                     50, 50, 58, 48, 53, 32, 50, 48, 50, 48>>

----------------------------------------------------------------------------
(* Properties of repeated calls *)

\* The last call had the inputs of the call kept.
Repeated == pc = "done" /\ memo # NoMemo /\ call = memo.call

\* The call reported success: a length, or the caller's buffer.
Succeeded(r) == (r.kind = "int" /\ r.val >= 0) \/ r.to = "str"

====
